---- MODULE Spec2Model ----
(***************************************************************************)
(* A model of diacea/experiments.py: five strategies that turn a flat list *)
(* of diagram elements (rectangles, texts, arrows) into a relational model *)
(* (parent, label, from/to), and the QuadTree index one of them uses.      *)
(***************************************************************************)
EXTENDS Integers, Sequences, FiniteSets, TLC

VARIABLES data, pc, out, qt, log, found

vars == <<data, pc, out, qt, log, found>>

-----------------------------------------------------------------------------
(* Bounds of the model.                                                    *)

\* Coordinates of the hierarchy inputs range over 0..MaxCoord.
MaxCoord == 5

\* Texts and arrow ends of the scene inputs lie on the grid (0..MaxX) \X (0..MaxY).
MaxX == 6

MaxY == 4

\* The QuadTree of SpecQT takes at most MaxInserts insert calls.
MaxInserts == 3

\* The QuadTree of SpecQT has a capacity in 1..MaxCapacity.
MaxCapacity == 2

-----------------------------------------------------------------------------
(* Python values.                                                          *)

\* A dict key that is absent (rule_based_approach sets 'parent' only when found).
NoKey == "<absent>"

\* Python's None (the running parent of the hierarchy loop before any match).
None == [type |-> "None", id |-> NoKey, x |-> 0, y |-> 0, width |-> 0,
         height |-> 0, text |-> "", points |-> <<>>]

Rect(id, x, y, w, h) ==
    [type |-> "rectangle", id |-> id, x |-> x, y |-> y, width |-> w,
     height |-> h, text |-> "", points |-> <<>>]

Text(id, x, y, t) ==
    [type |-> "text", id |-> id, x |-> x, y |-> y, width |-> 0,
     height |-> 0, text |-> t, points |-> <<>>]

Arrow(id, s, e) ==
    [type |-> "arrow", id |-> id, x |-> 0, y |-> 0, width |-> 0,
     height |-> 0, text |-> "", points |-> <<s, e>>]

\* 'x' in item: rectangles and texts carry a position, arrows carry points only.
HasPos(item) == item.type \in {"rectangle", "text"}

RectRec(id, label, parent) ==
    [id |-> id, type |-> "rectangle", label |-> label, parent |-> parent,
     from |-> NoKey, to |-> NoKey]

ArrowRec(id, f, t) ==
    [id |-> id, type |-> "arrow", label |-> "", parent |-> NoKey,
     from |-> f, to |-> t]

Ok(records) == [status |-> "ok", records |-> records]

ValueError == [status |-> "ValueError", records |-> <<>>]

ReturnsNone == [status |-> "None", records |-> <<>>]

NotRun == [status |-> "notrun", records |-> <<>>]

-----------------------------------------------------------------------------
(* Sequence helpers standing for Python's comprehensions and builtins.     *)

Range(s) == {s[i] : i \in 1..Len(s)}

\* min(seq, key=...), given the keys: the index of the first least key.
FirstMin(keys) ==
    CHOOSE i \in 1..Len(keys) :
        /\ \A j \in 1..Len(keys) : keys[i] <= keys[j]
        /\ \A j \in 1..(i - 1) : keys[j] > keys[i]

Area(r) == r.width * r.height

\* list.sort(key=area, reverse=True): stable, so equal areas keep their order.
RECURSIVE InsertByArea(_, _)
InsertByArea(sorted, r) ==
    IF sorted = <<>> THEN <<r>>
    ELSE IF Area(Head(sorted)) >= Area(r)
         THEN <<Head(sorted)>> \o InsertByArea(Tail(sorted), r)
         ELSE <<r>> \o sorted

RECURSIVE SortByAreaDesc(_)
SortByAreaDesc(s) ==
    IF s = <<>> THEN <<>>
    ELSE InsertByArea(SortByAreaDesc(SubSeq(s, 1, Len(s) - 1)), s[Len(s)])

IsRectangle(item) == item.type = "rectangle"
IsText(item) == item.type = "text"
IsArrow(item) == item.type = "arrow"

Rectangles(d) == SelectSeq(d, IsRectangle)
Texts(d) == SelectSeq(d, IsText)
Arrows(d) == SelectSeq(d, IsArrow)

-----------------------------------------------------------------------------
(* Shared geometry.                                                        *)

is_rectangle_inside(outer, inner) ==
    /\ outer.x < inner.x
    /\ outer.y < inner.y
    /\ outer.x + outer.width > inner.x + inner.width
    /\ outer.y + outer.height > inner.y + inner.height

\* _dist, times 4 to stay in the integers: (x + w/2 - px)^2 + (y + h/2 - py)^2.
\* The factor is the same for every rectangle, so min() picks the same one.
dist(rect, point) ==
    (2 * rect.x + rect.width - 2 * point[1]) * (2 * rect.x + rect.width - 2 * point[1])
    + (2 * rect.y + rect.height - 2 * point[2]) * (2 * rect.y + rect.height - 2 * point[2])

\* The candidate test of find_nearest_rectangle.
PointInCandidate(r, point) ==
    /\ r.x <= point[1] /\ point[1] <= r.x + r.width
    /\ r.y <= point[2] /\ point[2] <= r.y + r.height

\* Defined for a non-empty list; min() of an empty list raises ValueError.
find_nearest_rectangle(point, rectangles) ==
    LET IsCand(r) == PointInCandidate(r, point)
        candidates == SelectSeq(rectangles, IsCand)
    IN IF candidates = <<>>
       THEN rectangles[FirstMin([i \in 1..Len(rectangles) |->
                                    dist(rectangles[i], point)])]
       ELSE candidates[FirstMin([i \in 1..Len(candidates) |->
                                    Area(candidates[i])])]

\* The inline label test: rect.x < text.x < rect.x + rect.width, and for y.
TextInside(rect, text) ==
    /\ rect.x < text.x /\ text.x < rect.x + rect.width
    /\ rect.y < text.y /\ text.y < rect.y + rect.height

\* The first text of the list inside rect, '' when there is none (for/break).
FirstLabel(rect, texts) ==
    LET Inside(t) == TextInside(rect, t)
        hits == SelectSeq(texts, Inside)
    IN IF hits = <<>> THEN "" ELSE Head(hits).text

\* One step of the parent loop: the candidate replaces the running parent when it
\* contains rect and the running parent is None or contains the candidate.
ParentStep(parent, potential_parent, rect) ==
    IF /\ potential_parent.id # rect.id
       /\ is_rectangle_inside(potential_parent, rect)
       /\ (parent = None \/ is_rectangle_inside(parent, potential_parent))
    THEN potential_parent
    ELSE parent

RECURSIVE ParentLoop(_, _, _)
ParentLoop(parent, rest, rect) ==
    IF rest = <<>> THEN parent
    ELSE ParentLoop(ParentStep(parent, Head(rest), rect), Tail(rest), rect)

FindParent(rect, rectangles) == ParentLoop(None, rectangles, rect)

\* The arrow records every strategy but the first and the last appends.
ArrowRecord(arrow, rectangles) ==
    ArrowRec(arrow.id,
             find_nearest_rectangle(arrow.points[1], rectangles).id,
             find_nearest_rectangle(arrow.points[2], rectangles).id)

-----------------------------------------------------------------------------
(* Imperative approach.                                                    *)

convert_to_relative(absolute_data) ==
    LET rects == Rectangles(absolute_data)
        texts == Texts(absolute_data)
        Item(item) ==
            IF item.type = "rectangle"
            THEN <<RectRec(item.id, FirstLabel(item, texts), "")>>
            ELSE IF item.type = "arrow"
            THEN LET Nearest(point) ==
                         rects[FirstMin([i \in 1..Len(rects) |->
                                            dist(rects[i], point)])]
                 IN <<ArrowRec(item.id, Nearest(item.points[1]).id,
                               Nearest(item.points[2]).id)>>
            ELSE <<>>
        RECURSIVE Loop(_)
        Loop(s) == IF s = <<>> THEN <<>> ELSE Item(Head(s)) \o Loop(Tail(s))
    IN IF Arrows(absolute_data) # <<>> /\ rects = <<>> THEN ValueError
       ELSE Ok(Loop(absolute_data))

-----------------------------------------------------------------------------
(* Rules based approach.                                                   *)

rule_based_approach(d) ==
    LET rectangles == SortByAreaDesc(Rectangles(d))
        texts == Texts(d)
        arrows == Arrows(d)
        RectItem(rect) ==
            LET parent == FindParent(rect, rectangles)
            IN RectRec(rect.id, FirstLabel(rect, texts),
                       IF parent # None THEN parent.id ELSE NoKey)
        ArrowItem(a) == ArrowRecord(a, rectangles)
    IN IF arrows # <<>> /\ rectangles = <<>> THEN ValueError
       ELSE Ok([i \in 1..Len(rectangles) |-> RectItem(rectangles[i])]
               \o [i \in 1..Len(arrows) |-> ArrowItem(arrows[i])])

-----------------------------------------------------------------------------
(* QuadTree solver.  The index halves its boundary on every subdivision;   *)
(* the model holds every Rectangle in units of 1/QScale so that each half  *)
(* is an integer, which is exact arithmetic on the halves.                 *)

\* No node lies deeper than the number of inserted items, so QScale halves exactly.
QScale == 2 ^ (MaxInserts + 1)

\* Rectangle(x, y, w, h) of integer arguments.
Rectangle(x, y, w, h) ==
    [x |-> x * QScale, y |-> y * QScale, w |-> w * QScale, h |-> h * QScale]

\* Rectangle.contains: half-open on both axes.
contains(self, item) ==
    /\ self.x <= item.x * QScale /\ item.x * QScale < self.x + self.w
    /\ self.y <= item.y * QScale /\ item.y * QScale < self.y + self.h

\* An intersects that asks whether the other rectangle starts inside this one.
intersectsOrigin(self, other) ==
    /\ self.x <= other.x /\ other.x < self.x + self.w
    /\ self.y <= other.y /\ other.y < self.y + self.h

\* Rectangle.intersects
intersects(self, other) ==
    ~ \/ self.x + self.w <= other.x
      \/ other.x + other.w <= self.x
      \/ self.y + self.h <= other.y
      \/ other.y + other.h <= self.y

\* The boundary subdivide() gives child q of a node: 1 = northeast,
\* 2 = northwest, 3 = southeast, 4 = southwest.
ChildBoundary(b, q) ==
    LET w == b.w \div 2
        h == b.h \div 2
    IN CASE q = 1 -> [x |-> b.x + w, y |-> b.y, w |-> w, h |-> h]
         [] q = 2 -> [x |-> b.x, y |-> b.y, w |-> w, h |-> h]
         [] q = 3 -> [x |-> b.x + w, y |-> b.y + h, w |-> w, h |-> h]
         [] q = 4 -> [x |-> b.x, y |-> b.y + h, w |-> w, h |-> h]

\* QuadTree(boundary, capacity): a tree is its root boundary, its capacity and
\* its nodes, each node named by the path of quadrants from the root and
\* holding its items and its boundary; a node is divided when its children exist.
QuadTree(boundary, capacity) ==
    [capacity |-> capacity,
     nodes |-> (<<>> :> [items |-> <<>>, boundary |-> boundary])]

divided(tree, path) == Append(path, 1) \in DOMAIN tree.nodes

subdivide(tree, path) ==
    [tree EXCEPT !.nodes =
        @ @@ [p \in {Append(path, q) : q \in 1..4} |->
                [items |-> <<>>,
                 boundary |-> ChildBoundary(tree.nodes[path].boundary, p[Len(p)])]]]

\* QuadTree.insert on the node at path: the returned flag and the tree after it.
RECURSIVE insert(_, _, _)
insert(tree, path, item) ==
    LET self == tree.nodes[path]
    IN IF ~contains(self.boundary, item)
       THEN [ok |-> FALSE, tree |-> tree]
       ELSE IF Len(self.items) < tree.capacity
       THEN [ok |-> TRUE,
             tree |-> [tree EXCEPT !.nodes[path].items = Append(@, item)]]
       ELSE LET t0 == IF divided(tree, path) THEN tree ELSE subdivide(tree, path)
                ne == insert(t0, Append(path, 1), item)
                nw == insert(ne.tree, Append(path, 2), item)
                se == insert(nw.tree, Append(path, 3), item)
                sw == insert(se.tree, Append(path, 4), item)
            IN IF ne.ok THEN ne
               ELSE IF nw.ok THEN nw
               ELSE IF se.ok THEN se
               ELSE sw

\* QuadTree.query on the node at path.
RECURSIVE query(_, _, _)
query(tree, path, range) ==
    LET self == tree.nodes[path]
        InRange(item) == contains(range, item)
    IN IF ~intersects(self.boundary, range) THEN <<>>
       ELSE SelectSeq(self.items, InRange)
            \o (IF divided(tree, path)
                THEN query(tree, Append(path, 1), range)
                     \o query(tree, Append(path, 2), range)
                     \o query(tree, Append(path, 3), range)
                     \o query(tree, Append(path, 4), range)
                ELSE <<>>)

MinOf(S) == CHOOSE m \in S : \A n \in S : m <= n
MaxOf(S) == CHOOSE m \in S : \A n \in S : m >= n

\* The bounding box over every item with a position (item.get('width', 0)).
BoundingBox(d) ==
    LET pos == Range(SelectSeq(d, HasPos))
        min_x == MinOf({i.x : i \in pos})
        min_y == MinOf({i.y : i \in pos})
        max_x == MaxOf({i.x + i.width : i \in pos})
        max_y == MaxOf({i.y + i.height : i \in pos})
    IN Rectangle(min_x, min_y, max_x - min_x, max_y - min_y)

\* for item in data: qt.insert(item).  The code discards the returned flag; the
\* model keeps each item with its flag beside the tree, for the claims to read.
RECURSIVE InsertAll(_, _)
InsertAll(acc, items) ==
    IF items = <<>> THEN acc
    ELSE LET r == insert(acc.tree, <<>>, Head(items))
         IN InsertAll([tree |-> r.tree,
                       log |-> Append(acc.log, [item |-> Head(items), ok |-> r.ok])],
                      Tail(items))

\* The index quadtree_approach builds: capacity 4 over the bounding box.
BuildIndex(d) ==
    InsertAll([tree |-> QuadTree(BoundingBox(d), 4), log |-> <<>>],
              SelectSeq(d, HasPos))

\* next((text['text'] for text in contained_items if text['type'] == 'text'), '')
QueryLabel(tree, rect) ==
    LET range == Rectangle(rect.x, rect.y, rect.width, rect.height)
        contained_items == query(tree, <<>>, range)
        hits == SelectSeq(contained_items, IsText)
    IN IF hits = <<>> THEN "" ELSE Head(hits).text

quadtree_approach(d) ==
    LET rectangles == SortByAreaDesc(Rectangles(d))
        arrows == Arrows(d)
        tree == BuildIndex(d).tree
        RectItem(rect) ==
            LET parent == FindParent(rect, rectangles)
            IN RectRec(rect.id, QueryLabel(tree, rect),
                       IF parent # None THEN parent.id ELSE NoKey)
        ArrowItem(a) == ArrowRecord(a, rectangles)
    IN IF SelectSeq(d, HasPos) = <<>> THEN ValueError
       ELSE IF arrows # <<>> /\ rectangles = <<>> THEN ValueError
       ELSE Ok([i \in 1..Len(rectangles) |-> RectItem(rectangles[i])]
               \o [i \in 1..Len(arrows) |-> ArrowItem(arrows[i])])

-----------------------------------------------------------------------------
(* CSP solver.  Every constraint is unary, so a solution picks, for each   *)
(* rectangle on its own, a label and a parent its two constraints accept;  *)
(* which solution the solver lists first is the library's business, and    *)
(* the model takes any of them.                                            *)

\* text_in_rectangle over the label's domain
LabelChoices(rect, texts) ==
    {t.text : t \in {u \in Range(texts) : TextInside(rect, u)}} \cup {""}

\* valid_parent over the parent's domain, None standing for no 'parent' key
ParentChoices(rect, rectangles) ==
    {r.id : r \in {q \in Range(rectangles) :
                      q.id # rect.id /\ is_rectangle_inside(q, rect)}}
    \cup {NoKey}

\* The rectangle records of every solution, in the order of the sorted list.
RECURSIVE Solutions(_, _, _)
Solutions(rest, rectangles, texts) ==
    IF rest = <<>> THEN {<<>>}
    ELSE {<<RectRec(Head(rest).id, l, p)>> \o tail :
             l \in LabelChoices(Head(rest), texts),
             p \in ParentChoices(Head(rest), rectangles),
             tail \in Solutions(Tail(rest), rectangles, texts)}

\* The values csp_solver can return.
csp_solver(d) ==
    LET rectangles == SortByAreaDesc(Rectangles(d))
        texts == Texts(d)
        arrows == Arrows(d)
        ArrowItem(a) == ArrowRecord(a, rectangles)
    IN IF rectangles = <<>> THEN {ReturnsNone}
       ELSE {Ok(sol \o [i \in 1..Len(arrows) |-> ArrowItem(arrows[i])]) :
                sol \in Solutions(rectangles, rectangles, texts)}

-----------------------------------------------------------------------------
(* Graph-based solver.  A DiGraph keeps its nodes and, per ordered pair of *)
(* nodes, one edge, in the order they were first added; adding an edge     *)
(* that exists updates its attributes in place.                            *)

DiGraph == [nodes |-> <<>>, edges |-> <<>>]

add_node(G, item) == [G EXCEPT !.nodes = Append(@, item)]

add_edge(G, u, v, type, arrow_id) ==
    IF \E i \in 1..Len(G.edges) : G.edges[i].u = u /\ G.edges[i].v = v
    THEN LET i == CHOOSE i \in 1..Len(G.edges) :
                      G.edges[i].u = u /\ G.edges[i].v = v
         IN [G EXCEPT !.edges[i].type = type,
                      !.edges[i].arrow_id =
                          IF arrow_id # NoKey THEN arrow_id ELSE @]
    ELSE [G EXCEPT !.edges =
             Append(@, [u |-> u, v |-> v, type |-> type, arrow_id |-> arrow_id])]

\* G.nodes[n]
NodeOf(G, n) == CHOOSE item \in Range(G.nodes) : item.id = n

successors(G, n) ==
    LET From(e) == e.u = n
        out_edges == SelectSeq(G.edges, From)
    IN [i \in 1..Len(out_edges) |-> out_edges[i].v]

predecessors(G, n) ==
    LET Into(e) == e.v = n
        in_edges == SelectSeq(G.edges, Into)
    IN [i \in 1..Len(in_edges) |-> in_edges[i].u]

\* G.edges(data=True): node by node, each node's out-edges in the order added.
RECURSIVE EdgesFrom(_, _)
EdgesFrom(G, nodes) ==
    IF nodes = <<>> THEN <<>>
    ELSE LET From(e) == e.u = Head(nodes).id
         IN SelectSeq(G.edges, From) \o EdgesFrom(G, Tail(nodes))

edges(G) == EdgesFrom(G, G.nodes)

RECURSIVE AddNodes(_, _)
AddNodes(G, items) ==
    IF items = <<>> THEN G
    ELSE AddNodes(add_node(G, Head(items)), Tail(items))

\* for i, outer in enumerate(rectangles): for inner in rectangles[i + 1:]
RECURSIVE AddContainment(_, _, _)
AddContainment(G, rectangles, k) ==
    IF k > Len(rectangles) * Len(rectangles) THEN G
    ELSE LET i == ((k - 1) \div Len(rectangles)) + 1
             j == ((k - 1) % Len(rectangles)) + 1
             outer == rectangles[i]
             inner == rectangles[j]
         IN AddContainment(
                IF j > i /\ is_rectangle_inside(outer, inner)
                THEN add_edge(G, outer.id, inner.id, "contains", NoKey)
                ELSE G,
                rectangles, k + 1)

\* for rect in rectangles: for text in texts
RECURSIVE AddTextContainment(_, _, _, _)
AddTextContainment(G, rectangles, texts, k) ==
    IF texts = <<>> \/ k > Len(rectangles) * Len(texts) THEN G
    ELSE LET rect == rectangles[((k - 1) \div Len(texts)) + 1]
             text == texts[((k - 1) % Len(texts)) + 1]
         IN AddTextContainment(
                IF TextInside(rect, text)
                THEN add_edge(G, rect.id, text.id, "contains", NoKey)
                ELSE G,
                rectangles, texts, k + 1)

RECURSIVE AddArrows(_, _, _)
AddArrows(G, arrows, rectangles) ==
    IF arrows = <<>> THEN G
    ELSE LET item == Head(arrows)
             from_rect == find_nearest_rectangle(item.points[1], rectangles)
             to_rect == find_nearest_rectangle(item.points[2], rectangles)
         IN AddArrows(add_edge(G, from_rect.id, to_rect.id, "arrow", item.id),
                      Tail(arrows), rectangles)

generate_output(G) ==
    LET IsTextNode(n) == NodeOf(G, n).type = "text"
        IsRectNode(n) == NodeOf(G, n).type = "rectangle"
        NodeItem(item) ==
            LET labels == SelectSeq(successors(G, item.id), IsTextNode)
                parents == SelectSeq(predecessors(G, item.id), IsRectNode)
            IN RectRec(item.id,
                       IF labels = <<>> THEN "" ELSE NodeOf(G, Head(labels)).text,
                       IF parents # <<>> THEN Head(parents) ELSE NoKey)
        IsArrowEdge(e) == e.type = "arrow"
        rect_nodes == SelectSeq(G.nodes, IsRectangle)
        arrow_edges == SelectSeq(edges(G), IsArrowEdge)
    IN [i \in 1..Len(rect_nodes) |-> NodeItem(rect_nodes[i])]
       \o [i \in 1..Len(arrow_edges) |->
              ArrowRec(arrow_edges[i].arrow_id, arrow_edges[i].u, arrow_edges[i].v)]

BuildGraph(d) ==
    LET rectangles == SortByAreaDesc(Rectangles(d))
        G1 == AddNodes(DiGraph, d)
        G2 == AddContainment(G1, rectangles, 1)
        G3 == AddTextContainment(G2, rectangles, Texts(d), 1)
    IN AddArrows(G3, Arrows(d), rectangles)

graph_based_approach(d) ==
    IF Arrows(d) # <<>> /\ Rectangles(d) = <<>> THEN ValueError
    ELSE Ok(generate_output(BuildGraph(d)))

-----------------------------------------------------------------------------
(* Inputs.                                                                 *)

Spans(n) == {s \in (0..n) \X (0..n) : s[1] < s[2]}

\* The nested spans <<k, n - k>>.
NestedSpans(n) == {s \in Spans(n) : s[1] + s[2] = n}

\* Hierarchy inputs: up to three rectangles, any span of 0..MaxCoord across and
\* a nested span of 0..MaxCoord down, so that rectangles nest three deep, overlap,
\* touch, coincide or lie apart.
HierIds == <<"r1", "r2", "r3">>

HierGeoms == Spans(MaxCoord) \X NestedSpans(MaxCoord)

HierRect(i, g) ==
    Rect(HierIds[i], g[1][1], g[2][1], g[1][2] - g[1][1], g[2][2] - g[2][1])

HierInput(d) ==
    \E n \in 0..Len(HierIds) : \E gs \in [1..n -> HierGeoms] :
        d = [i \in 1..n |-> HierRect(i, gs[i])]

\* Scene inputs: the reference scene, an outer container with two containers
\* side by side inside it that share an edge, any of the three in any order;
\* then up to two texts anywhere on the grid, or an arrow between any two grid
\* points and possibly a second arrow joining the same two points either way.
SceneRects ==
    {Rect("Moat", 0, 0, 6, 4), Rect("Left", 1, 1, 2, 2), Rect("Right", 3, 1, 2, 2)}

Points == (0..MaxX) \X (0..MaxY)

TextIds == <<"t1", "t2">>

TextOf == <<"T1", "T2">>

ArrowIds == <<"a1", "a2">>

SceneInput(d) ==
    \E rs \in {f \in UNION {[1..n -> SceneRects] : n \in 0..Cardinality(SceneRects)} :
                  \A i, j \in DOMAIN f : f[i] = f[j] => i = j} :
        \/ \E n \in 0..Len(TextIds) : \E ps \in [1..n -> Points] :
               d = rs \o [i \in 1..n |-> Text(TextIds[i], ps[i][1], ps[i][2], TextOf[i])]
        \/ \E s, e \in Points :
               \/ d = rs \o <<Arrow(ArrowIds[1], s, e)>>
               \/ d = rs \o <<Arrow(ArrowIds[1], s, e), Arrow(ArrowIds[2], s, e)>>
               \/ d = rs \o <<Arrow(ArrowIds[1], s, e), Arrow(ArrowIds[2], e, s)>>

-----------------------------------------------------------------------------
(* The state machine: a caller holding one input list applies the          *)
(* strategies to it one after another, as the parametrized test does; the  *)
(* calls are independent, each reading only the input.                     *)

Strategies ==
    {"convert_to_relative", "rule_based_approach", "csp_solver",
     "quadtree_approach", "graph_based_approach"}

NoTree == QuadTree(Rectangle(0, 0, 0, 0), 0)

NoQuery == [asked |-> FALSE, range |-> Rectangle(0, 0, 0, 0), items |-> <<>>]

InitCalls(plan) ==
    /\ pc = plan
    /\ out = [s \in Strategies |-> NotRun]
    /\ qt = NoTree
    /\ log = <<>>
    /\ found = NoQuery

Returns(name, value) ==
    /\ pc # <<>>
    /\ Head(pc) = name
    /\ pc' = Tail(pc)
    /\ out' = [out EXCEPT ![name] = value]
    /\ UNCHANGED <<data, found>>

CallConvertToRelative ==
    /\ Returns("convert_to_relative", convert_to_relative(data))
    /\ UNCHANGED <<qt, log>>

CallRuleBasedApproach ==
    /\ Returns("rule_based_approach", rule_based_approach(data))
    /\ UNCHANGED <<qt, log>>

CallCspSolver ==
    /\ \E result \in csp_solver(data) : Returns("csp_solver", result)
    /\ UNCHANGED <<qt, log>>

\* The index the call built is kept in qt, and what each insert returned in log.
CallQuadtreeApproach ==
    /\ Returns("quadtree_approach", quadtree_approach(data))
    /\ IF SelectSeq(data, HasPos) = <<>>
       THEN UNCHANGED <<qt, log>>
       ELSE /\ qt' = BuildIndex(data).tree
            /\ log' = BuildIndex(data).log

CallGraphBasedApproach ==
    /\ Returns("graph_based_approach", graph_based_approach(data))
    /\ UNCHANGED <<qt, log>>

Next ==
    \/ CallConvertToRelative
    \/ CallRuleBasedApproach
    \/ CallCspSolver
    \/ CallQuadtreeApproach
    \/ CallGraphBasedApproach

Plan ==
    <<"convert_to_relative", "rule_based_approach", "quadtree_approach",
      "graph_based_approach", "csp_solver">>

Init == SceneInput(data) /\ InitCalls(Plan)

Spec == Init /\ [][Next]_vars

-----------------------------------------------------------------------------
(* The QuadTree on its own: a tree of some capacity over the square        *)
(* [0, 2) x [0, 2) takes insert calls of items anywhere on the grid 0..2,  *)
(* on or beyond its far edges included, and query calls of any range with  *)
(* corners on the grid.                                                    *)

Coords == 0..2

Ranges ==
    {Rectangle(a[1], b[1], a[2] - a[1], b[2] - b[1]) : a, b \in Spans(2)}

InitQT ==
    /\ data = <<>>
    /\ pc = <<>>
    /\ out = [s \in Strategies |-> NotRun]
    /\ \E capacity \in 1..MaxCapacity :
           qt = QuadTree(Rectangle(0, 0, 2, 2), capacity)
    /\ log = <<>>
    /\ found = NoQuery

\* qt.insert(item); log keeps the item and the flag returned.
Insert ==
    /\ Len(log) < MaxInserts
    /\ \E x, y \in Coords :
           LET item == Text(ToString(Len(log) + 1), x, y, "")
               r == insert(qt, <<>>, item)
           IN /\ qt' = r.tree
              /\ log' = Append(log, [item |-> item, ok |-> r.ok])
    /\ found' = NoQuery
    /\ UNCHANGED <<data, pc, out>>

\* qt.query(range)
Query ==
    /\ \E range \in Ranges :
           found' = [asked |-> TRUE, range |-> range,
                     items |-> query(qt, <<>>, range)]
    /\ UNCHANGED <<data, pc, out, qt, log>>

NextQT == Insert \/ Query

SpecQT == InitQT /\ [][NextQT]_vars

HierPlan == <<"rule_based_approach", "quadtree_approach">>

InitHier == HierInput(data) /\ InitCalls(HierPlan)

NextHier == CallRuleBasedApproach \/ CallQuadtreeApproach

SpecHier == InitHier /\ [][NextHier]_vars

-----------------------------------------------------------------------------
(* What the claims read.                                                   *)

Containers == Range(Rectangles(data))

Labels == Range(Texts(data))

Connectors == Range(Arrows(data))

\* The containers other than c that strictly contain c on all four sides.
Enclosing(c) ==
    {p \in Containers : p.id # c.id /\ is_rectangle_inside(p, c)}

Smallest(S) == {p \in S : \A q \in S : Area(p) <= Area(q)}

Ran(s) == out[s].status = "ok"

Records(s) == Range(out[s].records)

\* The rectangle record a strategy gave container c.
RecordOf(s, c) ==
    CHOOSE r \in Records(s) : r.type = "rectangle" /\ r.id = c.id

HierStrategies == {"rule_based_approach", "quadtree_approach"}

-----------------------------------------------------------------------------
\* C1 as stated: rule_based_approach and quadtree_approach give every container
\* the id of a smallest-area container that strictly contains it as 'parent',
\* and no 'parent' exactly when no other container strictly contains it.
C1_SmallestEnclosingParent ==
    \A s \in HierStrategies : Ran(s) =>
        \A c \in Containers :
            IF Enclosing(c) = {}
            THEN RecordOf(s, c).parent = NoKey
            ELSE RecordOf(s, c).parent \in {p.id : p \in Smallest(Enclosing(c))}


\* Whether rectangle record r of strategy s has a parent, '' counting as none.
Up(s, id) ==
    LET rs == {r \in Records(s) : r.type = "rectangle" /\ r.id = id}
    IN IF rs = {} THEN NoKey
       ELSE LET r == CHOOSE r \in rs : TRUE
            IN IF r.parent = "" THEN NoKey ELSE r.parent

\* The ids met by following parent links from id, at most n of them.
RECURSIVE Chain(_, _, _)
Chain(s, id, n) ==
    IF n = 0 \/ Up(s, id) = NoKey THEN {}
    ELSE {Up(s, id)} \cup Chain(s, Up(s, id), n - 1)

ParentStrategies ==
    {"rule_based_approach", "quadtree_approach", "csp_solver",
     "graph_based_approach"}

\* C2: in the output of every strategy that reports parents, a container's
\* parent is the id of a different input container and following parent
\* links from a container never leads back to it.
C2_ParentForest ==
    \A s \in ParentStrategies : Ran(s) =>
        \A c \in Containers :
            /\ Up(s, c.id) # NoKey =>
                   /\ Up(s, c.id) # c.id
                   /\ Up(s, c.id) \in {p.id : p \in Containers}
            /\ c.id \notin Chain(s, c.id, Cardinality(Containers))

\* The containers whose open interior holds the point of label t.
Holding(t) == {c \in Containers : TextInside(c, t)}

\* C3: with distinct label texts, rule_based_approach and quadtree_approach give
\* a label's text to at most one container, and of nested containers that hold
\* the label's point only to the innermost, smallest-area one.
C3_LabelOnlyOnInnermost ==
    \A s \in HierStrategies : Ran(s) =>
        \A t \in Labels :
            LET carriers == {c \in Containers : RecordOf(s, c).label = t.text}
            IN /\ Cardinality(carriers) <= 1
               /\ \A c \in carriers : c \in Smallest(Holding(t))

\* C4: for every strategy, a container's label is a label's text only if the
\* label's point is strictly inside the container; a label on an edge of the
\* container is never attached to it.
C4_LabelStrictlyInside ==
    \A s \in Strategies : Ran(s) =>
        \A c \in Containers : \A t \in Labels :
            RecordOf(s, c).label = t.text => TextInside(c, t)

\* The point lies in the open interior of container c.
StrictlyInside(c, point) ==
    /\ c.x < point[1] /\ point[1] < c.x + c.width
    /\ c.y < point[2] /\ point[2] < c.y + c.height

\* What C5 asks of find_nearest_rectangle: the smallest-area container whose open
\* interior holds the point, or with none the container nearest by centre.
NearestStrict(point) ==
    LET holding == {c \in Containers : StrictlyInside(c, point)}
    IN IF holding # {} THEN {c.id : c \in Smallest(holding)}
       ELSE {c.id : c \in {n \in Containers :
                \A m \in Containers : dist(n, point) <= dist(m, point)}}

ArrowOf(id) == CHOOSE a \in Connectors : a.id = id

NearestStrategies == {"rule_based_approach", "quadtree_approach", "csp_solver"}

\* C5: find_nearest_rectangle resolves a point to the smallest-area container
\* whose open interior holds it and, when none does (a point on a boundary or in
\* empty space), to the container of least squared centre distance.
C5_NearestByOpenInterior ==
    \A s \in NearestStrategies : Ran(s) =>
        \A r \in Records(s) : r.type = "arrow" =>
            /\ r.from \in NearestStrict(ArrowOf(r.id).points[1])
            /\ r.to \in NearestStrict(ArrowOf(r.id).points[2])

\* A record with an empty 'parent' read as one without the key.
Normal(r) == IF r.parent = "" THEN [r EXCEPT !.parent = NoKey] ELSE r

\* C6: the five strategies return the same relational model: sorted by id,
\* their lists of records are equal (the ids of a list being distinct, the
\* lists have the same records and the same length).
C6_StrategiesAgree ==
    \A s1, s2 \in Strategies : (Ran(s1) /\ Ran(s2)) =>
        /\ {Normal(r) : r \in Records(s1)} = {Normal(r) : r \in Records(s2)}
        /\ Len(out[s1].records) = Len(out[s2].records)

\* The lists that hold the elements of d in another order.
Shuffles(d) ==
    {[i \in 1..Len(d) |-> d[f[i]]] : f \in Permutations(1..Len(d))}

\* C7: rule_based_approach and quadtree_approach return the same set of records
\* for every permutation of the input list.
C7_PermutationInvariant ==
    \A d \in Shuffles(data) :
        /\ Ran("rule_based_approach") =>
               Range(rule_based_approach(d).records) = Records("rule_based_approach")
        /\ Ran("quadtree_approach") =>
               Range(quadtree_approach(d).records) = Records("quadtree_approach")

\* How many records of strategy s have this type and id.
Count(s, type, id) ==
    LET Match(r) == r.type = type /\ r.id = id
    IN Len(SelectSeq(out[s].records, Match))

\* C8: with at least one container, every strategy's output has exactly one
\* rectangle record per container, exactly one arrow record per connector
\* with that connector's id, and no record for a label.
C8_OneRecordPerElement ==
    \A s \in Strategies : (Ran(s) /\ Containers # {}) =>
        /\ \A c \in Containers : Count(s, "rectangle", c.id) = 1
        /\ \A a \in Connectors : Count(s, "arrow", a.id) = 1
        /\ \A r \in Records(s) : r.id \notin {t.id : t \in Labels}

\* The items the nodes of tree hold, node after node.
Stored(tree) ==
    LET RECURSIVE Gather(_)
        Gather(paths) ==
            IF paths = {} THEN <<>>
            ELSE LET p == CHOOSE p \in paths : TRUE
                 IN tree.nodes[p].items \o Gather(paths \ {p})
    IN Gather(DOMAIN tree.nodes)

\* C9: when quadtree_approach returns, every element with a position is in the
\* index: no insert returned False (which it does only for a point outside the
\* root boundary) while the run went on to return a result.
C9_NoElementLeftOut ==
    Ran("quadtree_approach") =>
        /\ \A i \in 1..Len(log) : log[i].ok
        /\ \A item \in Range(SelectSeq(data, HasPos)) : item \in Range(Stored(qt))

\* The items whose insert returned True.
Accepted == {log[i].item : i \in {j \in 1..Len(log) : log[j].ok}}

\* C10: for any capacity and after any inserts, a query returns exactly the
\* items whose insert returned True and whose anchor point the range contains,
\* each once (pruning by intersects hides none of them), and every such item is
\* held by one node and no other item by any.
C10_QueryExact ==
    /\ found.asked =>
           /\ Range(found.items) = {i \in Accepted : contains(found.range, i)}
           /\ Len(found.items) = Cardinality(Range(found.items))
    /\ Range(Stored(qt)) = Accepted
    /\ Len(Stored(qt)) = Cardinality(Accepted)

\* A query of a divided tree has returned an item held by a child node and
\* left out an accepted item that the range does not contain.
C10_Witness ==
    /\ found.asked
    /\ divided(qt, <<>>)
    /\ \E p \in DOMAIN qt.nodes :
           p # <<>> /\ Range(qt.nodes[p].items) \cap Range(found.items) # {}
    /\ Accepted \ Range(found.items) # {}

====
